---- MODULE Spec2Model ----
(***************************************************************************)
(* Model of the oxide core crate (src/oxide/crates/core/src/lib.rs):       *)
(*   - the extraction pipeline parse_candidate_strings_from_files          *)
(*     (read_all_files, parse_all_blobs) with its parallel workers;        *)
(*   - the content path resolver resolve_content_paths with                *)
(*     is_allowed_content_path.                                            *)
(* Text is modelled as sequences of bytes (0..255): "a.js" is              *)
(* <<97,46,106,115>>.  An Option is a sequence of length at most one:      *)
(* <<>> is None, <<v>> is Some(v); a Result<bytes> likewise.               *)
(***************************************************************************)
EXTENDS Integers, Sequences, FiniteSets, TLC

\* Largest number of sources handed to one call of the pipeline.
MaxSources == 3
\* Largest number of files in a filesystem snapshot under the root.
MaxFiles == 3

VARIABLES
    subscriber,       \* process-wide: a global tracing subscriber is installed
    disk,             \* path -> Result: <<>> unreadable, <<bytes>> the content
    pc,               \* position of the pipeline call
    debug,            \* the DEBUG test of line 25 held for the current call
    changed_content,  \* the argument of the current call
    blobs,            \* read_all_files: per source <<>> (not yet read) or <<blob>>
    parts,            \* parse_all_blobs: partial results of the map/reduce tree
    result,           \* the returned Vec<String>
    snapshot,         \* resolver: the filesystem under the root
    rpc,              \* resolver: position of resolve_content_paths
    paths,            \* resolver: the walk's surviving files (line 61)
    groups,           \* resolver: directory -> set of extensions (line 64)
    patterns          \* resolver: the returned Vec<String>

vars == <<subscriber, disk, pc, debug, changed_content, blobs, parts, result,
          snapshot, rpc, paths, groups, patterns>>

----------------------------------------------------------------------------
(* Byte strings *)

None == <<>>
Some(v) == <<v>>

Min(a, b) == IF a < b THEN a ELSE b

\* Ord for str / [u8] / OsStr: byte-lexicographic, a proper prefix is smaller.
LexLess(a, b) ==
    \E k \in 0..Min(Len(a), Len(b)) :
        /\ \A j \in 1..k : a[j] = b[j]
        /\ \/ k = Len(a) /\ k < Len(b)
           \/ k < Len(a) /\ k < Len(b) /\ a[k + 1] < b[k + 1]

\* str::contains
Contains(s, t) ==
    \E i \in 1..(Len(s) + 1) :
        i + Len(t) - 1 <= Len(s) /\ SubSeq(s, i, i + Len(t) - 1) = t

\* os_str/str validity as UTF-8 (what to_str() and String require).
RECURSIVE ValidUtf8(_)
ValidUtf8(s) ==
    IF s = <<>> THEN TRUE
    ELSE LET b == s[1]
             Cont(i) == i <= Len(s) /\ s[i] >= 128 /\ s[i] <= 191
             Rest(n) == ValidUtf8(SubSeq(s, n + 1, Len(s)))
         IN  IF b <= 127 THEN Rest(1)
             ELSE IF b >= 194 /\ b <= 223 THEN Cont(2) /\ Rest(2)
             ELSE IF b >= 224 /\ b <= 239 THEN
                 /\ Cont(2) /\ Cont(3)
                 /\ (b = 224 => s[2] >= 160)
                 /\ (b = 237 => s[2] <= 159)
                 /\ Rest(3)
             ELSE IF b >= 240 /\ b <= 244 THEN
                 /\ Cont(2) /\ Cont(3) /\ Cont(4)
                 /\ (b = 240 => s[2] >= 144)
                 /\ (b = 244 => s[2] <= 143)
                 /\ Rest(4)
             ELSE FALSE

\* Path::file_name for a path given as its final component: the name itself.
\* Path::extension: None when the name has no '.', or starts with '.' and
\* has no other '.'; otherwise the bytes after the last '.'.
LastDot(name) ==
    LET dots == {i \in 2..Len(name) : name[i] = 46}
    IN  IF dots = {} THEN 0 ELSE CHOOSE i \in dots : \A j \in dots : j <= i

PathExtension(name) ==
    IF LastDot(name) = 0 THEN None
    ELSE Some(SubSeq(name, LastDot(name) + 1, Len(name)))

\* OsStr::to_str: None unless valid UTF-8.
ToStr(s) == IF ValidUtf8(s) THEN Some(s) ELSE None

\* s.to_str().unwrap_or_default()
ToStrOrDefault(s) == IF ValidUtf8(s) THEN s ELSE <<>>

----------------------------------------------------------------------------
(* Static tables (fixtures/*.txt, embedded with include_str!) *)

\* "png", "jpg"
BinaryExtensions == {<<112, 110, 103>>, <<106, 112, 103>>}
\* "css", "lock"
IgnoredExtensions == {<<99, 115, 115>>, <<108, 111, 99, 107>>}
\* "package-lock.json"
IgnoredFiles ==
    {<<112, 97, 99, 107, 97, 103, 101, 45, 108, 111, 99, 107, 46, 106, 115, 111, 110>>}

\* is_allowed_content_path(path), path given by its file name.
is_allowed_content_path(name) ==
    IF ToStr(name) # None /\ name \in IgnoredFiles THEN FALSE
    ELSE IF PathExtension(name) = None THEN FALSE
    ELSE LET ext == ToStrOrDefault(PathExtension(name)[1])
         IN  ext \notin IgnoredExtensions /\ ext \notin BinaryExtensions

----------------------------------------------------------------------------
(* Candidate extractor (crate::parser::Extractor) *)

\* identifier-start class: letters, digits, - _ . : / ! @ % #
IdentStart ==
    (65..90) \cup (97..122) \cup (48..57) \cup {45, 95, 46, 58, 47, 33, 64, 37, 35}

\* identifier-continue class (outside brackets)
IdentContinue == IdentStart

\* quote characters ' and "
Quotes == {39, 34}

\* One left-to-right scan.  start = 0: no candidate open, otherwise the index
\* of its first byte; depth: open '[' count; quote: 0 or the open quote byte.
RECURSIVE Scan(_, _, _, _, _, _)
Scan(blob, i, start, depth, quote, acc) ==
    IF i > Len(blob) THEN
        IF start > 0 THEN acc \cup {SubSeq(blob, start, Len(blob))} ELSE acc
    ELSE LET b == blob[i] IN
        IF start = 0 THEN
            IF b \in IdentStart THEN Scan(blob, i + 1, i, 0, 0, acc)
            ELSE Scan(blob, i + 1, 0, 0, 0, acc)
        ELSE IF quote # 0 THEN
            Scan(blob, i + 1, start, depth, IF b = quote THEN 0 ELSE quote, acc)
        ELSE IF depth > 0 THEN
            IF b = 93 THEN Scan(blob, i + 1, start, depth - 1, 0, acc)
            ELSE IF b = 91 THEN Scan(blob, i + 1, start, depth + 1, 0, acc)
            ELSE IF b \in Quotes THEN Scan(blob, i + 1, start, depth, b, acc)
            ELSE Scan(blob, i + 1, start, depth, 0, acc)
        ELSE IF b = 91 THEN Scan(blob, i + 1, start, 1, 0, acc)
        ELSE IF b \in IdentContinue THEN Scan(blob, i + 1, start, 0, 0, acc)
        ELSE Scan(blob, i + 1, 0, 0, 0, acc \cup {SubSeq(blob, start, i - 1)})

\* Extractor::unique(input, Default::default()): the set of candidate slices.
ExtractorUnique(blob) == Scan(blob, 1, 0, 0, 0, {})

----------------------------------------------------------------------------
(* Extraction pipeline *)

\* "tailwind"
Tailwind == <<116, 97, 105, 108, 119, 105, 110, 100>>

\* Values of the DEBUG environment variable: unset, "1", "true", "*",
\* "x:tailwind", "0".
EnvValues ==
    { None, Some(<<49>>), Some(<<116, 114, 117, 101>>), Some(<<42>>),
      Some(<<120, 58>> \o Tailwind), Some(<<48>>) }

\* line 25: matches!(std::env::var("DEBUG"), Ok(value) if ...)
DebugEnabled(env) ==
    /\ env # None
    /\ LET value == env[1]
       IN  \/ value = <<42>>
           \/ value = <<49>>
           \/ value = <<116, 114, 117, 101>>
           \/ Contains(value, Tailwind)

\* Files the sources may name: "a.html", "img.png", "gone.html" (absent).
HtmlPath == <<97, 46, 104, 116, 109, 108>>
PngPath == <<105, 109, 103, 46, 112, 110, 103>>
GonePath == <<103, 111, 110, 101, 46, 104, 116, 109, 108>>
FilePaths == {HtmlPath, PngPath, GonePath}

\* Contents of a.html: "b a", "a[\xFF]", "a['\xC3\xA9]'] a"
HtmlContents ==
    { <<98, 32, 97>>,
      <<97, 91, 255, 93>>,
      <<97, 91, 39, 195, 169, 93, 39, 93, 32, 97>> }
\* Contents of img.png: empty, "\x89PNG b"
PngContents == { <<>>, <<137, 80, 78, 71, 32, 98>> }
\* Inline content (a String, hence valid UTF-8): "b"
Contents == { <<98>> }

Disks ==
    { [p \in FilePaths |->
          IF p = HtmlPath THEN Some(h) ELSE IF p = PngPath THEN Some(g) ELSE None]
      : h \in HtmlContents, g \in PngContents }

ChangedContent(file, content, extension) ==
    [file |-> file, content |-> content, extension |-> extension]

ExtHint(p) == IF PathExtension(p) = None THEN <<>> ELSE PathExtension(p)[1]

SourceChoices ==
    { ChangedContent(Some(p), None, ExtHint(p)) : p \in FilePaths }
    \cup { ChangedContent(None, Some(c), ExtHint(HtmlPath)) : c \in Contents }
    \cup { ChangedContent(Some(HtmlPath), Some(c), ExtHint(HtmlPath)) : c \in Contents }
    \cup { ChangedContent(None, None, ExtHint(HtmlPath)) }

SourceLists == UNION { [1..n -> SourceChoices] : n \in 0..MaxSources }

ReadSourceKeepBoth(c, d) ==
    IF c.file # None /\ c.content = None THEN
        IF d[c.file[1]] # None THEN d[c.file[1]][1] ELSE <<>>
    ELSE IF c.content # None THEN c.content[1]
    ELSE <<>>

ReadSourceSkipBinary(c, d) ==
    IF c.file # None /\ c.content = None THEN
        IF d[c.file[1]] # None /\ is_allowed_content_path(c.file[1])
        THEN d[c.file[1]][1] ELSE <<>>
    ELSE IF c.file = None /\ c.content # None THEN c.content[1]
    ELSE <<>>

\* read_all_files, the closure of lines 160-170 applied to one source.
ReadSource(c, d) ==
    IF c.file # None /\ c.content = None THEN
        IF d[c.file[1]] # None THEN d[c.file[1]][1] ELSE <<>>
    ELSE IF c.file = None /\ c.content # None THEN c.content[1]
    ELSE <<>>

\* reduce(Default::default, |mut a, b| { a.extend(b); a })
ReduceIdentity == {}

ReduceOpDropRight(a, b) == a

ReduceOp(a, b) == a \cup b

\* String::from_utf8_unchecked(s.to_vec()): the bytes, copied, not checked.
\* A String is its byte vector and sort() compares bytes, so the value built
\* from a sequence that is not valid UTF-8 holds those same bytes.
FromUtf8Unchecked(s) == s

\* The orders in which into_iter() may enumerate a set.
Orders(S) ==
    { f \in [1..Cardinality(S) -> S] :
        \A i, j \in 1..Cardinality(S) : i # j => f[i] # f[j] }

InsertSorted(s, x) ==
    LET k == Cardinality({i \in 1..Len(s) : ~LexLess(x, s[i])})
    IN  SubSeq(s, 1, k) \o <<x>> \o SubSeq(s, k + 1, Len(s))

RECURSIVE SortPrefix(_, _)
SortPrefix(v, n) ==
    IF n = 0 THEN <<>> ELSE InsertSorted(SortPrefix(v, n - 1), v[n])

SortNone(v) == [i \in 1..Len(v) |-> v[i]]

\* result.sort()
Sort(v) == SortPrefix(v, Len(v))

\* parse_candidate_strings_from_files, lines 24-34: the DEBUG test, the
\* subscriber's init() (which panics when a global subscriber is already
\* set), then read_all_files starts its workers.
parse_candidate_strings_from_files(env, sources) ==
    /\ pc = "idle"
    /\ changed_content' = sources
    /\ debug' = DebugEnabled(env)
    /\ blobs' = [i \in 1..Len(sources) |-> None]
    /\ parts' = {}
    /\ result' = <<>>
    /\ IF DebugEnabled(env) /\ subscriber
       THEN pc' = "panicked" /\ UNCHANGED subscriber
       ELSE /\ subscriber' = (subscriber \/ DebugEnabled(env))
            /\ pc' = IF Len(sources) = 0 THEN "parsing" ELSE "reading"
    /\ UNCHANGED <<disk, snapshot, rpc, paths, groups, patterns>>

\* read_all_files: one worker resolves source i; collect() joins them.
Read(i) ==
    /\ pc = "reading"
    /\ i \in 1..Len(changed_content)
    /\ blobs[i] = None
    /\ blobs' = [blobs EXCEPT ![i] = Some(ReadSource(changed_content[i], disk))]
    /\ pc' = IF \A j \in 1..Len(blobs) : j # i => blobs[j] # None
             THEN "parsing" ELSE "reading"
    /\ UNCHANGED <<subscriber, disk, debug, changed_content, parts, result,
                   snapshot, rpc, paths, groups, patterns>>

Covered == UNION { p.lo..p.hi : p \in parts }

\* parse_all_blobs: a leaf of the reduce tree maps blob i and folds it into
\* the identity.
Extract(i) ==
    /\ pc = "parsing"
    /\ i \in 1..Len(blobs)
    /\ i \notin Covered
    /\ parts' = parts \cup
          { [lo |-> i, hi |-> i, split |-> 0,
             set |-> ReduceOp(ReduceIdentity, ExtractorUnique(blobs[i][1]))] }
    /\ UNCHANGED <<subscriber, disk, pc, debug, changed_content, blobs, result,
                   snapshot, rpc, paths, groups, patterns>>

\* parse_all_blobs: the reduce step joins two adjacent partial results, the
\* left one as a.  split records where the last join was made.
Combine(p, q) ==
    /\ pc = "parsing"
    /\ p \in parts /\ q \in parts
    /\ p.hi + 1 = q.lo
    /\ parts' = (parts \ {p, q}) \cup
          { [lo |-> p.lo, hi |-> q.hi, split |-> p.hi, set |-> ReduceOp(p.set, q.set)] }
    /\ UNCHANGED <<subscriber, disk, pc, debug, changed_content, blobs, result,
                   snapshot, rpc, paths, groups, patterns>>

\* The reduce's value once every blob is folded in.
Reduced ==
    IF Len(blobs) = 0 THEN ReduceIdentity
    ELSE (CHOOSE p \in parts : p.lo = 1 /\ p.hi = Len(blobs)).set

\* parse_all_blobs, lines 186-195: into_iter, map to String, collect, sort,
\* return.
Finish ==
    /\ pc = "parsing"
    /\ \/ Len(blobs) = 0
       \/ \E p \in parts : p.lo = 1 /\ p.hi = Len(blobs)
    /\ \E order \in Orders(Reduced) :
          result' = Sort([i \in 1..Len(order) |-> FromUtf8Unchecked(order[i])])
    /\ pc' = "returned"
    /\ UNCHANGED <<subscriber, disk, debug, changed_content, blobs, parts,
                   snapshot, rpc, paths, groups, patterns>>

\* The caller takes the returned Vec (or catches the unwinding panic); the
\* call's locals are dropped.  The installed subscriber stays.
Release ==
    /\ pc \in {"returned", "panicked"}
    /\ pc' = "idle"
    /\ debug' = FALSE
    /\ changed_content' = <<>>
    /\ blobs' = <<>>
    /\ parts' = {}
    /\ result' = <<>>
    /\ UNCHANGED <<subscriber, disk, snapshot, rpc, paths, groups, patterns>>

Init ==
    /\ subscriber = FALSE
    /\ disk \in Disks
    /\ pc = "idle"
    /\ debug = FALSE
    /\ changed_content = <<>>
    /\ blobs = <<>>
    /\ parts = {}
    /\ result = <<>>
    /\ snapshot = {}
    /\ rpc = "unused"
    /\ paths = <<>>
    /\ groups = <<>>
    /\ patterns = <<>>

Next ==
    \/ /\ pc = "idle"
       /\ \E env \in EnvValues, sources \in SourceLists :
              parse_candidate_strings_from_files(env, sources)
    \/ \E i \in 1..MaxSources : Read(i)
    \/ \E i \in 1..MaxSources : Extract(i)
    \/ \E p \in parts, q \in parts : Combine(p, q)
    \/ Finish
    \/ Release

Spec == Init /\ [][Next]_vars

----------------------------------------------------------------------------
(* Content path resolver *)

\* args.base: "src"
RootBase == <<115, 114, 99>>

\* Directory names: "sub", "deep", ".git", ".hid", "dist", and a name that is
\* not valid UTF-8 ("\xFF").
Sub == <<115, 117, 98>>
Deep == <<100, 101, 101, 112>>
DotGit == <<46, 103, 105, 116>>
DotHid == <<46, 104, 105, 100>>
Dist == <<100, 105, 115, 116>>
BadName == <<255>>

\* File names: "a.js", "b.js", "c.ts", "d.json", "s.css", ".env", ".x.js",
\* "a.\xFF"; "img.png" and "package-lock.json" are defined above.
AJs == <<97, 46, 106, 115>>
BJs == <<98, 46, 106, 115>>
CTs == <<99, 46, 116, 115>>
DJson == <<100, 46, 106, 115, 111, 110>>
SCss == <<115, 46, 99, 115, 115>>
DotEnv == <<46, 101, 110, 118>>
DotXJs == <<46, 120, 46, 106, 115>>
ABad == <<97, 46, 255>>
PackageLock == CHOOSE n \in IgnoredFiles : TRUE

\* A file of the snapshot: the directories from the root down, and its name.
File(dir, name) == [dir |-> dir, name |-> name]

FileUniverse ==
    { File(<<>>, n) : n \in {AJs, BJs, DJson, PngPath, SCss, PackageLock,
                              DotEnv, DotXJs, ABad} }
    \cup { File(<<Sub>>, CTs), File(<<Sub>>, AJs), File(<<Sub, Deep>>, CTs),
           File(<<Sub, DotGit>>, AJs), File(<<DotGit>>, AJs), File(<<DotHid>>, AJs),
           File(<<Dist>>, AJs), File(<<BadName>>, AJs) }

\* The names the ignore files in force exclude: none, or "dist" and "b.js".
RuleSets == { {}, {Dist, BJs} }

\* Directories whose listing fails (permission denied): none, or sub.
UnreadableSets == { {}, {<<Sub>>} }

Snapshots ==
    { [rootOk |-> TRUE, files |-> fs, rules |-> r, unreadable |-> u]
        : fs \in {S \in SUBSET FileUniverse : Cardinality(S) <= MaxFiles},
          r \in RuleSets, u \in UnreadableSets }
    \cup { [rootOk |-> FALSE, files |-> {}, rules |-> {}, unreadable |-> {}] }

IsPrefix(d, e) == Len(d) <= Len(e) /\ SubSeq(e, 1, Len(d)) = d

\* A walk entry: its kind and its path below the root.
Entry(kind, path) == [kind |-> kind, path |-> path]

FileName(path) == path[Len(path)]
Parent(path) == SubSeq(path, 1, Len(path) - 1)

ChildDirs(snap, d) ==
    { SubSeq(f.dir, 1, Len(d) + 1) :
        f \in {g \in snap.files : Len(g.dir) > Len(d) /\ IsPrefix(d, g.dir)} }

ChildFiles(snap, d) == { d \o <<f.name>> : f \in {g \in snap.files : g.dir = d} }

\* The walker's own pruning: entries the ignore rules match.  hidden(false):
\* a leading '.' does not prune.
IgnoreRulesSkip(snap, path) == FileName(path) \in snap.rules

filter_entry_skip_hidden(kind, path) ==
    IF FileName(path)[1] = 46 THEN FALSE
    ELSE IF kind = "dir" THEN ToStr(FileName(path)) # None /\ FileName(path) # DotGit
    ELSE is_allowed_content_path(FileName(path))

\* The filter_entry closure, lines 46-57.
filter_entry(kind, path) ==
    IF kind = "dir" THEN
        IF ToStr(FileName(path)) # None THEN FileName(path) # DotGit ELSE FALSE
    ELSE is_allowed_content_path(FileName(path))

Kept(snap, kind, path) ==
    ~IgnoreRulesSkip(snap, path) /\ filter_entry(kind, path)

\* The entries the walk yields as Ok below directory d; listing an unreadable
\* directory yields an Err, which filter_map(Result::ok) drops.
RECURSIVE WalkDir(_, _)
WalkDir(snap, d) ==
    IF d \in snap.unreadable THEN {}
    ELSE { Entry("file", p) : p \in {q \in ChildFiles(snap, d) : Kept(snap, "file", q)} }
         \cup { Entry("dir", c) : c \in {q \in ChildDirs(snap, d) : Kept(snap, "dir", q)} }
         \cup UNION { WalkDir(snap, c) :
                        c \in {q \in ChildDirs(snap, d) : Kept(snap, "dir", q)} }

WalkAbortOnError(snap) ==
    IF ~snap.rootOk \/ snap.unreadable # {} THEN {}
    ELSE {Entry("dir", <<>>)} \cup WalkDir(snap, <<>>)

\* WalkBuilder::new(&root)...build().filter_map(Result::ok): the root is
\* yielded unfiltered; an invalid root yields one Err and nothing else.
Walk(snap) ==
    IF ~snap.rootOk THEN {}
    ELSE {Entry("dir", <<>>)} \cup WalkDir(snap, <<>>)

\* .filter(|e| e.path().is_file())
WalkFiles(snap) == { e.path : e \in {x \in Walk(snap) : x.kind = "file"} }

\* PathBuf with the root's components in front; Ord for Path compares the
\* components in order.
FullPath(path) == <<RootBase>> \o path

PathLess(p, q) ==
    \E k \in 0..Min(Len(p), Len(q)) :
        /\ \A j \in 1..k : p[j] = q[j]
        /\ \/ k = Len(p) /\ k < Len(q)
           \/ k < Len(p) /\ k < Len(q) /\ LexLess(p[k + 1], q[k + 1])

\* lines 67-71: the extension as a String, empty when there is none or when
\* it is not valid UTF-8.
ExtensionString(path) ==
    IF PathExtension(FileName(path)) = None THEN <<>>
    ELSE ToStrOrDefault(PathExtension(FileName(path))[1])

\* BTreeSet<String>::insert
BTreeSetInsert(set, x) ==
    IF \E i \in 1..Len(set) : set[i] = x THEN set ELSE InsertSorted(set, x)

\* groups.entry(parent).or_insert_with(Default::default).insert(extension)
GroupsInsert(g, parent, ext) ==
    IF \E i \in 1..Len(g) : g[i].key = parent
    THEN [i \in 1..Len(g) |->
             IF g[i].key = parent
             THEN [key |-> parent, exts |-> BTreeSetInsert(g[i].exts, ext)]
             ELSE g[i]]
    ELSE LET k == Cardinality({i \in 1..Len(g) : PathLess(g[i].key, parent)})
         IN  SubSeq(g, 1, k) \o <<[key |-> parent, exts |-> <<ext>>]>>
                 \o SubSeq(g, k + 1, Len(g))

\* lines 64-78, over the first n paths of the walk.
RECURSIVE GroupPaths(_, _)
GroupPaths(ps, n) ==
    IF n = 0 THEN <<>>
    ELSE GroupsInsert(GroupPaths(ps, n - 1),
                      Parent(FullPath(ps[n])), ExtensionString(ps[n]))

\* path.display(): the components joined by '/'.
RECURSIVE Display(_)
Display(path) ==
    IF Len(path) = 0 THEN <<>>
    ELSE IF Len(path) = 1 THEN path[1]
    ELSE Display(SubSeq(path, 1, Len(path) - 1)) \o <<47>> \o path[Len(path)]

\* .join(",")
RECURSIVE JoinComma(_)
JoinComma(xs) ==
    IF Len(xs) = 0 THEN <<>>
    ELSE IF Len(xs) = 1 THEN xs[1]
    ELSE JoinComma(SubSeq(xs, 1, Len(xs) - 1)) \o <<44>> \o xs[Len(xs)]

GlobSegmentRecursive(path) == <<42, 42, 47, 42>>

\* if path == root { "*" } else { "**/*" }
GlobSegment(path) == IF path = <<RootBase>> THEN <<42>> ELSE <<42, 42, 47, 42>>

FormatPatternFirstOnly(path, exts) ==
    Display(path) \o <<47>> \o GlobSegment(path) \o <<46>> \o exts[1]

\* the two format! arms, lines 87-102
FormatPattern(path, exts) ==
    IF Len(exts) = 1
    THEN Display(path) \o <<47>> \o GlobSegment(path) \o <<46>> \o exts[1]
    ELSE Display(path) \o <<47>> \o GlobSegment(path) \o <<46, 123>>
             \o JoinComma(exts) \o <<125>>

\* lines 83-104: one pattern per group, in the map's order; a group is never
\* empty.
EmitPatterns(g) ==
    LET kept == SelectSeq(g, LAMBDA e : Len(e.exts) > 0)
    IN  [i \in 1..Len(kept) |-> FormatPattern(kept[i].key, kept[i].exts)]

\* resolve_content_paths(args): the walk (its directory order is the
\* filesystem's), the grouping and the patterns.
resolve_content_paths(order) ==
    /\ rpc = "idle"
    /\ paths' = order
    /\ groups' = GroupPaths(order, Len(order))
    /\ patterns' = EmitPatterns(GroupPaths(order, Len(order)))
    /\ rpc' = "returned"
    /\ UNCHANGED <<subscriber, disk, pc, debug, changed_content, blobs, parts,
                   result, snapshot>>

InitResolve ==
    /\ subscriber = FALSE
    /\ disk = [p \in FilePaths |-> None]
    /\ pc = "unused"
    /\ debug = FALSE
    /\ changed_content = <<>>
    /\ blobs = <<>>
    /\ parts = {}
    /\ result = <<>>
    /\ snapshot \in Snapshots
    /\ rpc = "idle"
    /\ paths = <<>>
    /\ groups = <<>>
    /\ patterns = <<>>

NextResolve ==
    \E order \in Orders(WalkFiles(snapshot)) : resolve_content_paths(order)

SpecResolve == InitResolve /\ [][NextResolve]_vars

----------------------------------------------------------------------------
(* Glob matching, as the consumer of the patterns applies it: '*' matches
   any run of bytes other than '/', a leading '.' included; a leading
   segment "**" matches any number of directories, none included;
   {a,b} matches a or b. *)

IndexOf(s, b) ==
    IF \E i \in 1..Len(s) : s[i] = b
    THEN CHOOSE i \in 1..Len(s) : s[i] = b /\ \A j \in 1..(i - 1) : s[j] # b
    ELSE 0

\* The pieces of s between commas.
SplitComma(s) ==
    { SubSeq(s, ab[1], ab[2]) :
        ab \in { x \in (1..(Len(s) + 1)) \X (0..Len(s)) :
                   /\ x[1] <= x[2] + 1
                   /\ (x[1] = 1 \/ s[x[1] - 1] = 44)
                   /\ (x[2] = Len(s) \/ s[x[2] + 1] = 44)
                   /\ \A j \in x[1]..x[2] : s[j] # 44 } }

BraceExpand(p) ==
    LET i == IndexOf(p, 123)
        j == IndexOf(p, 125)
    IN  IF i = 0 \/ j < i THEN {p}
        ELSE { SubSeq(p, 1, i - 1) \o alt \o SubSeq(p, j + 1, Len(p)) :
                 alt \in SplitComma(SubSeq(p, i + 1, j - 1)) }

RECURSIVE GlobMatch(_, _)
GlobMatch(p, s) ==
    IF p = <<>> THEN s = <<>>
    ELSE IF Len(p) >= 3 /\ SubSeq(p, 1, 3) = <<42, 42, 47>> THEN
        \/ GlobMatch(SubSeq(p, 4, Len(p)), s)
        \/ \E i \in 1..Len(s) :
              /\ s[i] = 47
              /\ \A j \in 1..(i - 1) : s[j] # 47
              /\ GlobMatch(p, SubSeq(s, i + 1, Len(s)))
    ELSE IF p[1] = 42 THEN
        \/ GlobMatch(Tail(p), s)
        \/ s # <<>> /\ s[1] # 47 /\ GlobMatch(p, Tail(s))
    ELSE s # <<>> /\ s[1] = p[1] /\ GlobMatch(Tail(p), Tail(s))

GlobMatches(pattern, s) == \E q \in BraceExpand(pattern) : GlobMatch(q, s)

----------------------------------------------------------------------------
(* Properties of the extraction pipeline *)

Returned == pc = "returned"

\* The blob every source has been resolved to (defined once reading is over).
BlobOf(i) == blobs[i][1]

CandidatesOfBlobs == UNION { ExtractorUnique(BlobOf(i)) : i \in 1..Len(blobs) }

RangeOf(v) == { v[i] : i \in 1..Len(v) }

\* The ascending enumeration of a finite set of byte strings.
RECURSIVE Ascending(_)
Ascending(S) ==
    IF S = {} THEN <<>>
    ELSE LET m == CHOOSE x \in S : \A y \in S : y = x \/ LexLess(x, y)
         IN  <<m>> \o Ascending(S \ {m})

\* A source the loader cannot resolve: both or neither of file/content, or a
\* file whose read fails.
Unresolvable(c) ==
    \/ c.file # None /\ c.content # None
    \/ c.file = None /\ c.content = None
    \/ c.file # None /\ c.content = None /\ disk[c.file[1]] = None

\* The bytes a resolvable source stands for.
BytesOf(c) == IF c.file # None THEN disk[c.file[1]][1] ELSE c.content[1]

Remaining == SelectSeq(changed_content, LAMBDA c : ~Unresolvable(c))

\* C1: the returned sequence is strictly ascending in byte order: it is
\* sorted ascending by byte value and holds no string twice.
C1_SortedNoDuplicates ==
    Returned =>
        \A i, j \in 1..Len(result) : i < j => LexLess(result[i], result[j])

\* C1's case: several candidates are returned and one of them occurs in two
\* different blobs.
C1_Witness ==
    /\ Returned
    /\ Len(result) >= 2
    /\ \E i, j \in 1..Len(blobs) :
          i < j /\ ExtractorUnique(BlobOf(i)) \cap ExtractorUnique(BlobOf(j)) # {}

\* C2: whatever the order in which the workers read and extract and whatever
\* the order and grouping of the reduce steps, the call returns the one
\* sequence the list of blobs determines: the ascending enumeration of the
\* union of the blobs' candidate sets.
C2_ScheduleIndependent ==
    Returned => result = Ascending(CandidatesOfBlobs)

\* C2's case: three or more blobs with different candidate sets, reduced with
\* the right-hand pair joined first (1, (2, 3..)).
C2_Witness ==
    /\ Returned
    /\ Len(blobs) >= 3
    /\ \E p \in parts : p.lo = 1 /\ p.hi = Len(blobs) /\ p.split = 1
    /\ ExtractorUnique(BlobOf(1)) # ExtractorUnique(BlobOf(2))
    /\ ExtractorUnique(BlobOf(2)) # ExtractorUnique(BlobOf(3))
    /\ ExtractorUnique(BlobOf(3)) # {}

\* C3: an unresolvable source is read as the empty blob, reading never fails
\* the call, and the returned sequence is the one the remaining sources alone
\* determine.
C3_UnresolvedIsEmptyBlob ==
    /\ \A i \in 1..Len(blobs) :
          (blobs[i] # None /\ Unresolvable(changed_content[i])) => BlobOf(i) = <<>>
    /\ \A i \in 1..Len(blobs) :
          (blobs[i] # None /\ ~Unresolvable(changed_content[i]))
              => BlobOf(i) = BytesOf(changed_content[i])
    /\ pc = "panicked" => \A i \in 1..Len(blobs) : blobs[i] = None
    /\ Returned =>
          result = Ascending(UNION { ExtractorUnique(BytesOf(Remaining[k]))
                                       : k \in 1..Len(Remaining) })

\* C3's case: a call returned candidates although one file source could not
\* be read and another source had both fields set, or neither.
C3_Witness ==
    /\ Returned
    /\ result # <<>>
    /\ \E i \in 1..Len(changed_content) :
          LET c == changed_content[i]
          IN  c.file # None /\ c.content = None /\ disk[c.file[1]] = None
    /\ \E i \in 1..Len(changed_content) :
          (changed_content[i].file = None) = (changed_content[i].content = None)

\* C7: a call made with the DEBUG toggle set to a recognized value completes
\* like a call made with the toggle unset: it never ends in a panic.
C7_ToggleDoesNotAffectCalls ==
    debug => pc # "panicked"

\* A file source whose path has an extension of the binary-extension table.
BinaryFileSource(c) ==
    /\ c.file # None /\ c.content = None
    /\ PathExtension(c.file[1]) # None
    /\ PathExtension(c.file[1])[1] \in BinaryExtensions

OnlyBinaryFiles ==
    /\ Len(changed_content) >= 1
    /\ \A i \in 1..Len(changed_content) : BinaryFileSource(changed_content[i])

\* C8 as stated: files with a binary extension, passed directly, yield zero
\* candidates whatever they contain.
C8_BinaryFileYieldsNothing ==
    (Returned /\ OnlyBinaryFiles) => result = <<>>

\* C8 amended: a readable file source with a binary extension is read like any
\* other file (its blob is the file's bytes), and a call given only such
\* files returns exactly the candidates the extractor finds in their bytes.
C8_BinaryFileIsScanned ==
    /\ \A i \in 1..Len(blobs) :
          (/\ blobs[i] # None
           /\ BinaryFileSource(changed_content[i])
           /\ disk[changed_content[i].file[1]] # None)
              => BlobOf(i) = disk[changed_content[i].file[1]][1]
    /\ (Returned /\ OnlyBinaryFiles) =>
          RangeOf(result) =
              UNION { ExtractorUnique(disk[changed_content[i].file[1]][1])
                        : i \in 1..Len(changed_content) }

\* C8's case: a call given only img.png returned candidates found in it.
C8_Witness ==
    /\ Returned
    /\ OnlyBinaryFiles
    /\ result # <<>>

\* C10: every string the call returns was converted from a valid UTF-8 byte
\* sequence.
C10_CandidatesAreValidUtf8 ==
    Returned => \A i \in 1..Len(result) : ValidUtf8(result[i])

----------------------------------------------------------------------------
(* Properties of the content path resolver *)

ResolveReturned == rpc = "returned"

PathOf(f) == f.dir \o <<f.name>>

\* The path of a file as text, "src/sub/c.ts".
PathString(path) == Display(FullPath(path))

\* The files that survived the walk and the allowed-content-path filter.
Survivors == { paths[i] : i \in 1..Len(paths) }

\* The files of the snapshot no unreadable directory hides.
VisibleIn(snap) ==
    { f \in snap.files :
        \A k \in 0..Len(f.dir) : SubSeq(f.dir, 1, k) \notin snap.unreadable }

\* The files of the snapshot the returned patterns match.
Matched ==
    { PathOf(f) : f \in { g \in VisibleIn(snapshot) :
        \E i \in 1..Len(patterns) : GlobMatches(patterns[i], PathString(PathOf(g))) } }

EndsWith(s, t) == Len(t) <= Len(s) /\ SubSeq(s, Len(s) - Len(t) + 1, Len(s)) = t

SurvivorDirs == { Parent(p) : p \in Survivors }

\* The extensions, as text, of the surviving files directly in d.
ExtsOf(d) == { ExtensionString(p) : p \in { q \in Survivors : Parent(q) = d } }

\* "<dir>/*.<e>" for the root, "<dir>/**/*.<e>" otherwise; <e> one extension
\* or the brace list of the extensions in ascending order.
ExpectedPattern(d) ==
    LET exts == Ascending(ExtsOf(d))
        head == PathString(d) \o
                  (IF d = <<>> THEN <<47, 42, 46>> ELSE <<47, 42, 42, 47, 42, 46>>)
    IN  IF Len(exts) = 1 THEN head \o exts[1]
        ELSE head \o <<123>> \o JoinComma(exts) \o <<125>>

\* The snapshot src/a.js, src/b.js, src/sub/c.ts, nothing ignored.
ExampleSnapshot ==
    /\ snapshot.rootOk
    /\ snapshot.files = {File(<<>>, AJs), File(<<>>, BJs), File(<<Sub>>, CTs)}
    /\ snapshot.rules = {}
    /\ snapshot.unreadable = {}

PrunedByRules(f) ==
    f.name \in snapshot.rules \/ \E k \in 1..Len(f.dir) : f.dir[k] \in snapshot.rules

UnderDotGit(f) == \E k \in 1..Len(f.dir) : f.dir[k] = DotGit

AllowedName(f) ==
    /\ f.name \notin IgnoredFiles
    /\ PathExtension(f.name) # None
    /\ PathExtension(f.name)[1] \notin IgnoredExtensions
    /\ PathExtension(f.name)[1] \notin BinaryExtensions

InGroup(f) ==
    \E i \in 1..Len(groups) :
        /\ groups[i].key = FullPath(f.dir)
        /\ ExtensionString(PathOf(f)) \in RangeOf(groups[i].exts)

\* C6 as stated: a file contributes to its directory's group exactly when no
\* ignore rule prunes it, no directory on its path is named ".git", its name
\* is not an ignored file name and it has an extension of neither table.
C6_ContributesIffAllowed ==
    ResolveReturned =>
        \A f \in VisibleIn(snapshot) :
            (PathOf(f) \in Survivors) <=>
                (~PrunedByRules(f) /\ ~UnderDotGit(f) /\ AllowedName(f))

\* C6 amended: a file contributes to its directory's group exactly when the
\* walk reaches it (no directory on its path fails to be listed), no ignore
\* rule prunes it, no directory on its path below the root is named ".git" or
\* has a name that is not valid UTF-8, its name is not an ignored file name
\* and it has an extension of neither table; a leading '.' never excludes.
C6_ContributesIffReachedAndAllowed ==
    ResolveReturned =>
        \A f \in snapshot.files :
            /\ (PathOf(f) \in Survivors) <=>
                  /\ f \in VisibleIn(snapshot)
                  /\ ~PrunedByRules(f)
                  /\ ~UnderDotGit(f)
                  /\ \A k \in 1..Len(f.dir) : ValidUtf8(f.dir[k])
                  /\ AllowedName(f)
            /\ (PathOf(f) \in Survivors) => InGroup(f)

\* C6's case: a hidden file or a file in a hidden directory contributed, and
\* a file in a directory whose name is not valid UTF-8 did not.
C6_Witness ==
    /\ ResolveReturned
    /\ \E f \in snapshot.files :
          /\ PathOf(f) \in Survivors
          /\ InGroup(f)
          /\ (f.name[1] = 46 \/ \E k \in 1..Len(f.dir) : f.dir[k][1] = 46)
    /\ \E f \in snapshot.files :
          /\ PathOf(f) \notin Survivors
          /\ \E k \in 1..Len(f.dir) : ~ValidUtf8(f.dir[k])
          /\ ~PrunedByRules(f) /\ ~UnderDotGit(f) /\ AllowedName(f)

\* C9 as stated: a call on an invalid root does not end in a returned
\* pattern list (it ends in a failure).
C9_InvalidRootFails ==
    ~snapshot.rootOk => rpc # "returned"

\* The snapshot with everything below an unreadable directory removed.
WithoutUnreadable(snap) ==
    [rootOk |-> snap.rootOk, files |-> VisibleIn(snap), rules |-> snap.rules,
     unreadable |-> {}]

PatternsOf(snap) ==
    LET order == CHOOSE o \in Orders(WalkFiles(snap)) : TRUE
    IN  EmitPatterns(GroupPaths(order, Len(order)))

\* C9 amended: a call on an invalid root returns the empty pattern list, as
\* a call on a valid root without allowed files does, and a directory that
\* cannot be listed is skipped: the call returns the patterns of the
\* snapshot without that directory's content.
C9_InvalidRootReturnsEmpty ==
    ResolveReturned =>
        /\ ~snapshot.rootOk => patterns = <<>>
        /\ snapshot.rootOk => patterns = PatternsOf(WithoutUnreadable(snapshot))

\* C9's case: the call on an invalid root has returned.
C9_Witness ==
    /\ ResolveReturned
    /\ ~snapshot.rootOk
    /\ patterns = <<>>

\* A directory could not be listed and the call still returned patterns.
EntryErrorSkipped ==
    /\ ResolveReturned
    /\ snapshot.unreadable # {}
    /\ VisibleIn(snapshot) # snapshot.files
    /\ patterns # <<>>

====
